---- MODULE Spec2Model ----
(***************************************************************************)
(* Model of guck: the viewed-state store (src/src/state.rs), the diff      *)
(* engine (src/src/git.rs) and the request handlers (src/src/server.rs).   *)
(***************************************************************************)
EXTENDS Integers, Sequences, FiniteSets, TLC

VARIABLES
    file,       \* content of viewed.json on disk
    mem,        \* StateManager.state.repos of the running process
    proc,       \* "up" when start() is serving, "failed" when it returned Err
    seed,       \* iteration order of this process's HashMaps
    cur,        \* what GitRepo reports: repo_path, current_branch, current_commit
    diff,       \* the two-tree diff object between the base branch and HEAD
    hist,       \* the completed operations, most recent first (at most two)
    nops,       \* number of operations completed
    reqs,       \* the mark-viewed requests in flight, by request slot
    result,     \* what the last direct call of get_diff_files returned
    base,       \* the --base option the process was started with
    marks       \* the keys mark_file_viewed was called with, and those answered 200

vars == <<file, mem, proc, seed, cur, diff, hist, nops, reqs, result, base, marks>>

----------------------------------------------------------------------------
(* Bounds *)

MaxOps == 3
MaxReqs == 2
MaxDeltas == 2
MaxLines == 2

(* Program constants *)

StatusOK == 200
StatusInternalServerError == 500

----------------------------------------------------------------------------
(* Input domains *)

Repos == {"/r1", "/r2"}
Branches == {"main", "feature"}
Commits == {"c1", "c2"}
Files == {"a.txt", "b.txt"}

RepoOrder == <<"/r1", "/r2">>
BranchOrder == <<"main", "feature">>
CommitOrder == <<"c1", "c2">>

Seeds == {"fwd", "rev"}

----------------------------------------------------------------------------
(* Generic helpers *)

EmptyMap == [x \in {} |-> x]

Put(m, k, v) == [x \in (DOMAIN m) \cup {k} |-> IF x = k THEN v ELSE m[x]]

Contains(s, x) == \E i \in 1..Len(s) : s[i] = x

Reverse(s) == [i \in 1..Len(s) |-> s[Len(s) + 1 - i]]

RECURSIVE Filter(_, _)
Filter(s, S) ==
    IF s = <<>> THEN <<>>
    ELSE IF Head(s) \in S THEN <<Head(s)>> \o Filter(Tail(s), S)
    ELSE Filter(Tail(s), S)

\* The order in which a HashMap with key set S is iterated in a process
\* whose hasher keys are sd.
IterOrder(S, order, sd) ==
    Filter(IF sd = "fwd" THEN order ELSE Reverse(order), S)

----------------------------------------------------------------------------
(* The JSON document: serde_json::to_string_pretty and serde_json::from_str *)

JStr(s) == [t |-> "str", s |-> s]
JArr(items) == [t |-> "arr", items |-> items]
JObj(members) == [t |-> "obj", members |-> members]

FilesToJson(files) == JArr([i \in 1..Len(files) |-> JStr(files[i])])

CommitsToJson(commits, sd) ==
    LET ks == IterOrder(DOMAIN commits, CommitOrder, sd)
    IN JObj([i \in 1..Len(ks) |-> <<ks[i], FilesToJson(commits[ks[i]])>>])

BranchesToJson(branches, sd) ==
    LET ks == IterOrder(DOMAIN branches, BranchOrder, sd)
    IN JObj([i \in 1..Len(ks) |-> <<ks[i], CommitsToJson(branches[ks[i]], sd)>>])

ReposToJson(repos, sd) ==
    LET ks == IterOrder(DOMAIN repos, RepoOrder, sd)
    IN JObj([i \in 1..Len(ks) |-> <<ks[i], BranchesToJson(repos[ks[i]], sd)>>])

JInvalid == [t |-> "invalid"]

\* serde_json::to_string_pretty(&self.state): the text of the document
ToStringPretty(repos, sd) ==
    [utf8 |-> TRUE, json |-> JObj(<< <<"repos", ReposToJson(repos, sd)>> >>)]

Keys(obj) == {obj.members[i][1] : i \in 1..Len(obj.members)}

\* the value of the last member with key k: a HashMap keeps the last insert
Member(obj, k) ==
    LET idx == {i \in 1..Len(obj.members) : obj.members[i][1] = k}
        last == CHOOSE i \in idx : \A j \in idx : j <= i
    IN obj.members[last][2]

FilesOk(j) == j.t = "arr" /\ \A i \in 1..Len(j.items) : j.items[i].t = "str"
FilesFromJson(j) == [i \in 1..Len(j.items) |-> j.items[i].s]

CommitsOk(j) == j.t = "obj" /\ \A i \in 1..Len(j.members) : FilesOk(j.members[i][2])
CommitsFromJson(j) == [k \in Keys(j) |-> FilesFromJson(Member(j, k))]

BranchesOk(j) == j.t = "obj" /\ \A i \in 1..Len(j.members) : CommitsOk(j.members[i][2])
BranchesFromJson(j) == [k \in Keys(j) |-> CommitsFromJson(Member(j, k))]

ReposOk(j) == j.t = "obj" /\ \A i \in 1..Len(j.members) : BranchesOk(j.members[i][2])
ReposFromJson(j) == [k \in Keys(j) |-> BranchesFromJson(Member(j, k))]

\* serde_json::from_str::<ViewedState>(&contents): Ok(repos) or Err
FromStr(text) ==
    IF text.json.t # "obj" THEN [ok |-> FALSE]
    ELSE LET reposAt == {i \in 1..Len(text.json.members) : text.json.members[i][1] = "repos"}
         IN IF Cardinality(reposAt) # 1 THEN [ok |-> FALSE]
            ELSE IF ~ReposOk(Member(text.json, "repos")) THEN [ok |-> FALSE]
            ELSE [ok |-> TRUE, repos |-> ReposFromJson(Member(text.json, "repos"))]

----------------------------------------------------------------------------
(* The state file and the viewed-state store *)

NoFile == [exists |-> FALSE]
FileOf(contents) == [exists |-> TRUE, contents |-> contents]

\* what a state file can hold that is not a document this store wrote
GarbageText == [utf8 |-> TRUE, json |-> JInvalid]
EmptyObjectText == [utf8 |-> TRUE, json |-> JObj(<<>>)]
NonUtf8Bytes == [utf8 |-> FALSE, json |-> JInvalid]

\* the outcomes of fs::write(path, contents): File::create (open, truncate),
\* then write_all
WriteOutcomes == {"written", "open_failed", "write_failed"}

\* a strict prefix of a document's text: never a complete JSON value
Truncated(contents) == [utf8 |-> contents.utf8, json |-> JInvalid]

FsWrite(f, contents, w) ==
    IF w = "written" THEN FileOf(contents)
    ELSE IF w = "open_failed" THEN f
    ELSE FileOf(Truncated(contents))

\* StateManager::new: envok is whether the state directory was found and
\* created; the result is Err or the loaded state
StateManagerNew(f, envok) ==
    IF ~envok THEN [ok |-> FALSE]
    ELSE IF f.exists
    THEN IF ~f.contents.utf8 THEN [ok |-> FALSE]
         ELSE LET parsed == FromStr(f.contents)
              IN [ok |-> TRUE, repos |-> IF parsed.ok THEN parsed.repos ELSE EmptyMap]
    ELSE [ok |-> TRUE, repos |-> EmptyMap]

\* a lookup through the entry API, which creates the levels it does not find
IsFileViewedCallCreating(repos, r, b, c, f) ==
    LET repo == IF r \in DOMAIN repos THEN repos[r] ELSE EmptyMap
        branch_map == IF b \in DOMAIN repo THEN repo[b] ELSE EmptyMap
        commit_files == IF c \in DOMAIN branch_map THEN branch_map[c] ELSE <<>>
    IN [ok |-> TRUE,
        value |-> Contains(commit_files, f),
        repos |-> Put(repos, r, Put(repo, b, Put(branch_map, c, commit_files)))]

\* StateManager::is_file_viewed(&self, ...): the Result it returns and the
\* state it leaves
IsFileViewedCall(repos, r, b, c, f) ==
    [ok |-> TRUE,
     value |-> IF r \notin DOMAIN repos THEN FALSE
               ELSE IF b \notin DOMAIN repos[r] THEN FALSE
               ELSE IF c \notin DOMAIN repos[r][b] THEN FALSE
               ELSE Contains(repos[r][b][c], f),
     repos |-> repos]

\* the Ok value of is_file_viewed
IsFileViewed(repos, r, b, c, f) == IsFileViewedCall(repos, r, b, c, f).value

\* a push that is not guarded
PushAlways(files, f) == Append(files, f)

\* a push that replaces the collection by the file just marked
PushReplacing(files, f) == <<f>>

\* the push guarded by contains
PushIfAbsent(files, f) == IF Contains(files, f) THEN files ELSE Append(files, f)

\* an insert whose key leaves the branch out: every mark lands under "main"
InsertViewedIgnoringBranch(repos, r, b, c, f) ==
    LET repo == IF r \in DOMAIN repos THEN repos[r] ELSE EmptyMap
        branch_map == IF "main" \in DOMAIN repo THEN repo["main"] ELSE EmptyMap
        commit_files == IF c \in DOMAIN branch_map THEN branch_map[c] ELSE <<>>
    IN Put(repos, r, Put(repo, "main", Put(branch_map, c, PushIfAbsent(commit_files, f))))

\* StateManager::mark_file_viewed up to the call of save: the entry calls
\* and the guarded push
InsertViewed(repos, r, b, c, f) ==
    LET repo == IF r \in DOMAIN repos THEN repos[r] ELSE EmptyMap
        branch_map == IF b \in DOMAIN repo THEN repo[b] ELSE EmptyMap
        commit_files == IF c \in DOMAIN branch_map THEN branch_map[c] ELSE <<>>
    IN Put(repos, r, Put(repo, b, Put(branch_map, c, PushIfAbsent(commit_files, f))))

\* a save that drops the error of fs::write
SaveIgnoringWriteError(repos, sd, f, w) ==
    [file |-> FsWrite(f, ToStringPretty(repos, sd), w), ok |-> TRUE]

\* StateManager::save: the file after it, and whether it returned Ok
Save(repos, sd, f, w) ==
    [file |-> FsWrite(f, ToStringPretty(repos, sd), w), ok |-> (w = "written")]

\* a mark that flushes the fact just marked instead of the whole state
MarkFileViewedFlushingEntry(repos, sd, fl, r, b, c, f, w) ==
    LET inserted == InsertViewed(repos, r, b, c, f)
        saved == Save(InsertViewed(EmptyMap, r, b, c, f), sd, fl, w)
    IN [repos |-> inserted, file |-> saved.file, ok |-> saved.ok]

\* StateManager::mark_file_viewed as a whole
MarkFileViewed(repos, sd, fl, r, b, c, f, w) ==
    LET inserted == InsertViewed(repos, r, b, c, f)
        saved == Save(inserted, sd, fl, w)
    IN [repos |-> inserted, file |-> saved.file, ok |-> saved.ok]

----------------------------------------------------------------------------
(* The diff engine: GitRepo::get_diff_files *)

\* a delta side without a path, and a path that is not valid UTF-8
NoPath == "<none>"
NonUtf8Path == "<bytes>"

\* bytes of a line: LF ends a line, BadByte is a byte that is not valid UTF-8
LF == "LF"
BadByte == "0xFF"

DeltaKinds == {"Unmodified", "Added", "Deleted", "Modified", "Renamed", "Copied",
               "Ignored", "Untracked", "Typechange", "Unreadable", "Conflicted"}

\* the origin markers diff.print hands to its callback
FileHeaderOrigin == "F"
HunkHeaderOrigin == "H"
ContentOrigins == {"+", "-", " "}

FileHeaderLine == [origin |-> FileHeaderOrigin, content |-> <<"d", "i", "f", "f", LF>>]
HunkHeaderLine == [origin |-> HunkHeaderOrigin, content |-> <<"@", "@", LF>>]

\* the lines diff.print(DiffFormat::Patch) walks: per delta its file header,
\* then its hunk headers and lines
RECURSIVE PrintLines(_)
PrintLines(d) ==
    IF d = <<>> THEN <<>>
    ELSE <<FileHeaderLine>> \o Head(d).lines \o PrintLines(Tail(d))

RECURSIVE CountOrigin(_, _)
CountOrigin(lines, o) ==
    IF lines = <<>> THEN 0
    ELSE (IF Head(lines).origin = o THEN 1 ELSE 0) + CountOrigin(Tail(lines), o)

\* diff.stats(): the totals over the whole diff
StatsInsertions(d) == CountOrigin(PrintLines(d), "+")
StatsDeletions(d) == CountOrigin(PrintLines(d), "-")

\* std::str::from_utf8(line.content()).unwrap_or("")
FromUtf8OrEmpty(content) == IF Contains(content, BadByte) THEN <<>> ELSE content

\* a print callback that writes the content of every line and the origin of
\* the content lines only, as git's own patch output does
PatchWriteKeepingHeaders(line) ==
    IF line.origin \in ContentOrigins
    THEN <<line.origin>> \o FromUtf8OrEmpty(line.content)
    ELSE FromUtf8OrEmpty(line.content)

\* the print callback: what one line appends to patch_str
PatchWrite(line) ==
    IF line.origin \in ContentOrigins
    THEN <<line.origin>> \o FromUtf8OrEmpty(line.content)
    ELSE <<>>

RECURSIVE PatchOfLines(_)
PatchOfLines(lines) ==
    IF lines = <<>> THEN <<>>
    ELSE PatchWrite(Head(lines)) \o PatchOfLines(Tail(lines))

\* patch_str after diff.print has walked the diff
PatchStr(d) == PatchOfLines(PrintLines(d))

\* the path expression of the foreach callback panics on this delta
PathPanics(delta) == delta.new_path = NoPath /\ delta.old_path = NoPath

FilePath(delta) ==
    LET p == IF delta.new_path # NoPath THEN delta.new_path ELSE delta.old_path
    IN IF p = NonUtf8Path THEN "" ELSE p

StatusOf(delta) ==
    CASE delta.status = "Added" -> "added"
      [] delta.status = "Deleted" -> "deleted"
      [] delta.status = "Modified" -> "modified"
      [] delta.status = "Renamed" -> "renamed"
      [] delta.status = "Copied" -> "copied"
      [] OTHER -> "unknown"

\* a loop that takes the collected (file_path, status) pairs from the end
FileInfoAtReversed(d, i) ==
    [path |-> FilePath(d[Len(d) + 1 - i]),
     status |-> StatusOf(d[Len(d) + 1 - i]),
     additions |-> StatsInsertions(d),
     deletions |-> StatsDeletions(d),
     patch |-> PatchStr(d)]

\* the FileInfo pushed for the i-th collected (file_path, status)
FileInfoAt(d, i) ==
    [path |-> FilePath(d[i]),
     status |-> StatusOf(d[i]),
     additions |-> StatsInsertions(d),
     deletions |-> StatsDeletions(d),
     patch |-> PatchStr(d)]

\* GitRepo::get_diff_files(base_branch) on a repository whose local branches
\* are locals and whose base..HEAD diff is d; gitok is whether the commits
\* and trees could be read
GetDiffFiles(d, locals, base_branch, gitok) ==
    IF base_branch \notin locals \/ ~gitok THEN [ok |-> FALSE, panic |-> FALSE, files |-> <<>>]
    ELSE IF \E i \in 1..Len(d) : PathPanics(d[i])
    THEN [ok |-> FALSE, panic |-> TRUE, files |-> <<>>]
    ELSE [ok |-> TRUE, panic |-> FALSE, files |-> [i \in 1..Len(d) |-> FileInfoAt(d, i)]]

----------------------------------------------------------------------------
(* The repository the server runs in *)

LocalBranches == {"main", "feature"}

GoodLine(o) == [origin |-> o, content |-> <<"x", LF>>]
BadLine(o) == [origin |-> o, content |-> <<"x", BadByte, LF>>]

Delta(np, op, st, lines) ==
    [new_path |-> np, old_path |-> op, status |-> st, lines |-> lines]

\* the base..HEAD diff of the repository when HEAD is at commit c
DiffAt(c) ==
    IF c = "c1"
    THEN << Delta("a.txt", "a.txt", "Modified",
                  <<HunkHeaderLine, GoodLine(" "), GoodLine("-"), GoodLine("+")>>),
            Delta("b.txt", "b.txt", "Added", <<HunkHeaderLine, GoodLine("+")>>) >>
    ELSE << Delta("a.txt", "a.txt", "Deleted", <<HunkHeaderLine, GoodLine("-")>>) >>

----------------------------------------------------------------------------
(* The server: start and the request handlers, one request at a time *)

NoResult == [ok |-> FALSE, panic |-> FALSE, files |-> <<>>, called |-> FALSE, base |-> ""]

NoContents == GarbageText
IdleReq == [pc |-> "idle", r |-> "", b |-> "", c |-> "", f |-> "",
            contents |-> NoContents, status |-> 0]

\* server::start up to serving: GitRepo::open and StateManager::new
Start(f, envok) ==
    LET sm == StateManagerNew(f, envok)
    IN IF sm.ok THEN [proc |-> "up", mem |-> sm.repos]
       ELSE [proc |-> "failed", mem |-> EmptyMap]

\* the branch name diff_handler hands to get_diff_files
DiffBaseArg == "main"

\* the values of the --base option; "main" is its default
BaseOptions == {"main", "feature"}

NoMarks == [called |-> {}, acked |-> {}]

\* one completed operation: its arguments, the response status, how the
\* call it made into the store or the engine ended, the state before and after
Entry(op, f, status, call, body) ==
    [op |-> op, r |-> cur.repo_path, b |-> cur.branch, c |-> cur.commit, f |-> f,
     arg |-> IF op = "diff" THEN DiffBaseArg ELSE "",
     status |-> status, call |-> call, mem0 |-> mem, file0 |-> file, mem1 |-> mem', file1 |-> file',
     body |-> body]

Record(e) ==
    /\ hist' = <<e>> \o (IF hist = <<>> THEN <<>> ELSE <<hist[1]>>)
    /\ nops' = nops + 1

InitFiles == {NoFile, FileOf(GarbageText), FileOf(EmptyObjectText), FileOf(NonUtf8Bytes)}

Init ==
    /\ file \in InitFiles
    /\ seed \in Seeds
    /\ cur = [repo_path |-> "/r1", branch |-> "main", commit |-> "c1"]
    /\ proc = Start(file, TRUE).proc
    /\ mem = Start(file, TRUE).mem
    /\ diff = DiffAt("c1")
    /\ hist = <<>>
    /\ nops = 0
    /\ reqs = [i \in 1..MaxReqs |-> IdleReq]
    /\ result = NoResult
    /\ base \in BaseOptions
    /\ marks = NoMarks

\* the key a request for file path f is handled under
CurKey(f) == <<cur.repo_path, cur.branch, cur.commit, f>>

\* mark_viewed_handler: the git calls, mark_file_viewed, the response
MarkViewedHandler(f, gitok, w) ==
    /\ proc = "up"
    /\ nops < MaxOps
    /\ IF gitok
       THEN LET m == MarkFileViewed(mem, seed, file, cur.repo_path, cur.branch, cur.commit, f, w)
            IN /\ mem' = m.repos
               /\ file' = m.file
               /\ Record(Entry("mark", f, IF m.ok THEN StatusOK ELSE StatusInternalServerError,
                               IF m.ok THEN "ok" ELSE "err", <<>>))
               /\ marks' = [called |-> marks.called \cup {CurKey(f)},
                            acked |-> IF m.ok THEN marks.acked \cup {CurKey(f)}
                                      ELSE marks.acked]
       ELSE /\ w = "written"
            /\ UNCHANGED <<mem, file, marks>>
            /\ Record(Entry("mark", f, StatusInternalServerError, "none", <<>>))
    /\ UNCHANGED <<proc, seed, cur, diff, reqs, result, base>>

\* the FileDiff of a FileInfo: its fields and the viewed flag
FileDiffOf(info, viewed) ==
    [path |-> info.path, status |-> info.status, additions |-> info.additions,
     deletions |-> info.deletions, patch |-> info.patch, viewed |-> viewed]

\* the loop of diff_handler over the files: is_file_viewed per file, under
\* the key (r, b, c); ok is FALSE once a call returned Err
RECURSIVE ViewedLoop(_, _, _, _, _)
ViewedLoop(repos, r, b, c, files) ==
    IF files = <<>> THEN [ok |-> TRUE, repos |-> repos, body |-> <<>>]
    ELSE LET call == IsFileViewedCall(repos, r, b, c, Head(files).path)
         IN IF ~call.ok THEN [ok |-> FALSE, repos |-> call.repos, body |-> <<>>]
            ELSE LET rest == ViewedLoop(call.repos, r, b, c, Tail(files))
                 IN [ok |-> rest.ok, repos |-> rest.repos,
                     body |-> IF rest.ok
                              THEN <<FileDiffOf(Head(files), call.value)>> \o rest.body
                              ELSE <<>>]

\* diff_handler: the git calls, get_diff_files("main"), is_file_viewed per file
DiffHandler(gitok) ==
    /\ proc = "up"
    /\ nops < MaxOps
    /\ UNCHANGED <<file, proc, seed, cur, diff, reqs, result, base, marks>>
    /\ LET got == GetDiffFiles(diff, LocalBranches, DiffBaseArg, gitok)
           loop == ViewedLoop(mem, cur.repo_path, cur.branch, cur.commit, got.files)
       IN IF got.ok
          THEN /\ mem' = loop.repos
               /\ Record(Entry("diff", "", IF loop.ok THEN StatusOK ELSE StatusInternalServerError,
                               IF loop.ok THEN "ok" ELSE "err", loop.body))
          ELSE /\ mem' = mem
               /\ Record(Entry("diff", "", StatusInternalServerError, "none", <<>>))

\* the user checks out another branch or commit while the server runs
Checkout(b, c) ==
    /\ proc = "up"
    /\ nops < MaxOps
    /\ <<b, c>> # <<cur.branch, cur.commit>>
    /\ cur' = [cur EXCEPT !.branch = b, !.commit = c]
    /\ diff' = DiffAt(c)
    /\ UNCHANGED <<file, mem>>
    /\ Record(Entry("checkout", "", 0, "none", <<>>))
    /\ UNCHANGED <<proc, seed, reqs, result, base, marks>>

\* the process ends and guck start --base bs runs again, in the repository
\* at r
Restart(r, sd, bs, envok) ==
    /\ nops < MaxOps
    /\ cur' = [cur EXCEPT !.repo_path = r]
    /\ seed' = sd
    /\ base' = bs
    /\ proc' = Start(file, envok).proc
    /\ mem' = Start(file, envok).mem
    /\ UNCHANGED file
    /\ Record(Entry("restart", "", 0, IF envok THEN "ok" ELSE "err", <<>>))
    /\ UNCHANGED <<diff, reqs, result, marks>>

Next ==
    \/ \E f \in Files, gitok \in BOOLEAN, w \in WriteOutcomes : MarkViewedHandler(f, gitok, w)
    \/ \E gitok \in BOOLEAN : DiffHandler(gitok)
    \/ \E b \in Branches, c \in Commits : Checkout(b, c)
    \/ \E r \in Repos, sd \in Seeds, bs \in BaseOptions, envok \in BOOLEAN :
          Restart(r, sd, bs, envok)

Spec == Init /\ [][Next]_vars

----------------------------------------------------------------------------
(* Properties of the store and of the handlers, one request at a time *)

AllKeys == Repos \X Branches \X Commits \X Files

Viewed(repos, k) == IsFileViewed(repos, k[1], k[2], k[3], k[4])

KeyOf(e) == <<e.r, e.b, e.c, e.f>>

LevelAbsent(repos, k) ==
    \/ k[1] \notin DOMAIN repos
    \/ k[2] \notin DOMAIN repos[k[1]]
    \/ k[3] \notin DOMAIN repos[k[1]][k[2]]

Done(n) == Len(hist) >= n

\* the last operation was a mark-viewed request that called mark_file_viewed
LastIsMark == Done(1) /\ hist[1].op = "mark" /\ hist[1].call # "none"

\* C1: once mark_file_viewed has returned Ok for (repo, branch, commit, file),
\* StateManager::new on the state file as it then is succeeds and reports the
\* file viewed under that key, and so does the process started next.
RestartDurability ==
    /\ (LastIsMark /\ hist[1].call = "ok") =>
           LET sm == StateManagerNew(file, TRUE)
           IN sm.ok /\ Viewed(sm.repos, KeyOf(hist[1]))
    /\ (Done(2) /\ hist[1].op = "restart" /\ hist[1].call = "ok"
          /\ hist[2].op = "mark" /\ hist[2].call = "ok") =>
           (proc = "up" /\ Viewed(mem, KeyOf(hist[2])))

RestartDurabilityWitness ==
    /\ Done(2) /\ hist[1].op = "restart" /\ hist[1].call = "ok"
    /\ hist[2].op = "mark" /\ hist[2].call = "ok"
    /\ hist[2].file0.exists /\ hist[2].mem0 # EmptyMap
    /\ proc = "up" /\ Viewed(mem, KeyOf(hist[2]))

\* two mark-viewed calls in sequence with the same arguments
TwiceInSequence ==
    /\ Done(2) /\ LastIsMark
    /\ hist[2].op = "mark" /\ hist[2].call # "none"
    /\ KeyOf(hist[1]) = KeyOf(hist[2])

\* C3: two calls mark_file_viewed(r, b, c, f) in sequence leave a memory and
\* a state file that one call from the same state leaves, the file is viewed
\* after the first and after the second, and when both return Ok the second
\* changes neither the memory nor the state file.
MarkIdempotent ==
    TwiceInSequence =>
        /\ \E w \in WriteOutcomes :
              LET once == MarkFileViewed(hist[2].mem0, seed, hist[2].file0,
                                         hist[2].r, hist[2].b, hist[2].c, hist[2].f, w)
              IN once.repos = mem /\ once.file = file
        /\ Viewed(hist[2].mem1, KeyOf(hist[2]))
        /\ Viewed(mem, KeyOf(hist[1]))
        /\ mem = hist[2].mem1
        /\ (hist[1].call = "ok" /\ hist[2].call = "ok") => file = hist[2].file1

MarkIdempotentWitness ==
    /\ TwiceInSequence
    /\ hist[1].call = "ok" /\ hist[2].call = "ok"
    /\ ~Viewed(hist[2].mem0, KeyOf(hist[2]))
    /\ hist[2].mem0 # EmptyMap
    /\ file = hist[2].file1 /\ mem = hist[2].mem1

\* C4: mark_file_viewed(r, b, c, f) leaves is_file_viewed as it was for every
\* tuple other than (r, b, c, f).
KeyIsolation ==
    LastIsMark =>
        \A k \in AllKeys \ {KeyOf(hist[1])} :
            Viewed(hist[1].mem1, k) = Viewed(hist[1].mem0, k)

KeyIsolationWitness ==
    /\ LastIsMark
    /\ ~Viewed(hist[1].mem0, KeyOf(hist[1]))
    /\ Viewed(mem, KeyOf(hist[1]))
    /\ \E k \in AllKeys :
          /\ k[2] # hist[1].b /\ k[1] = hist[1].r /\ k[3] = hist[1].c /\ k[4] = hist[1].f
          /\ ~Viewed(mem, k)
    /\ \E k \in AllKeys \ {KeyOf(hist[1])} : Viewed(mem, k)

\* C5: when the write of the state file cannot complete, the request is
\* answered with an error, the file is viewed in memory, and the state file
\* holds its content from before the call.
WriteFailureKeepsFile ==
    (LastIsMark /\ hist[1].call = "err") =>
        /\ hist[1].status = StatusInternalServerError
        /\ Viewed(mem, KeyOf(hist[1]))
        /\ file = hist[1].file0

\* the state file is missing or does not parse as the state document
MissingOrCorrupt(f) ==
    \/ ~f.exists
    \/ ~f.contents.utf8
    \/ ~FromStr(f.contents).ok

\* the process has just been started, with its state directory in place
JustStarted == nops = 0 \/ (Done(1) /\ hist[1].op = "restart" /\ hist[1].call = "ok")

\* C6: started on a missing or corrupt state file, StateManager::new succeeds
\* and the store is empty.
SoftLoad ==
    (JustStarted /\ MissingOrCorrupt(file)) =>
        (proc = "up" /\ \A k \in AllKeys : ~Viewed(mem, k))

\* C7: is_file_viewed returns Ok(boolean) for every tuple, false when a level
\* of the key is absent, and leaves the memory as it is; a diff request
\* changes neither the memory nor the state file.
LookupIsPure ==
    /\ \A k \in AllKeys :
          LET call == IsFileViewedCall(mem, k[1], k[2], k[3], k[4])
          IN /\ call.ok
             /\ call.value \in BOOLEAN
             /\ LevelAbsent(mem, k) => call.value = FALSE
             /\ call.repos = mem
    /\ (Done(1) /\ hist[1].op = "diff") =>
          /\ hist[1].mem1 = hist[1].mem0
          /\ hist[1].file1 = hist[1].file0
          /\ hist[1].call # "err"
          /\ \A i \in 1..Len(hist[1].body) : hist[1].body[i].viewed \in BOOLEAN

LookupIsPureWitness ==
    /\ Done(1) /\ hist[1].op = "diff" /\ hist[1].call = "ok"
    /\ \E i \in 1..Len(hist[1].body) : hist[1].body[i].viewed
    /\ \E i \in 1..Len(hist[1].body) : ~hist[1].body[i].viewed
    /\ \E k \in AllKeys : k[1] \in DOMAIN mem /\ LevelAbsent(mem, k)

----------------------------------------------------------------------------
(* Mark-viewed requests handled concurrently: AppState shares one             *)
(* StateManager between the handlers and holds no lock, so the steps of      *)
(* mark_file_viewed of one request interleave with those of another.  Each   *)
(* step is taken atomically here.                                            *)

InitConc ==
    /\ file \in InitFiles
    /\ seed \in Seeds
    /\ cur = [repo_path |-> "/r1", branch |-> "main", commit |-> "c1"]
    /\ proc = Start(file, TRUE).proc
    /\ mem = Start(file, TRUE).mem
    /\ diff = DiffAt("c1")
    /\ hist = <<>>
    /\ nops = 0
    /\ reqs = [i \in 1..MaxReqs |-> IdleReq]
    /\ result = NoResult
    /\ base = "main"
    /\ marks = NoMarks

\* mark_viewed_handler up to the call of save: the git calls, the entry calls
\* and the guarded push
ReqInsert(i, f, gitok) ==
    /\ proc = "up"
    /\ reqs[i].pc = "idle"
    /\ IF gitok
       THEN /\ mem' = InsertViewed(mem, cur.repo_path, cur.branch, cur.commit, f)
            /\ reqs' = [reqs EXCEPT ![i] =
                          [pc |-> "inserted", r |-> cur.repo_path, b |-> cur.branch,
                           c |-> cur.commit, f |-> f, contents |-> NoContents, status |-> 0]]
       ELSE /\ mem' = mem
            /\ reqs' = [reqs EXCEPT ![i] =
                          [pc |-> "done", r |-> cur.repo_path, b |-> cur.branch,
                           c |-> cur.commit, f |-> f, contents |-> NoContents,
                           status |-> StatusInternalServerError]]
    /\ UNCHANGED <<file, proc, seed, cur, diff, hist, nops, result, base, marks>>

\* save: serde_json::to_string_pretty(&self.state)
ReqSerialize(i) ==
    /\ reqs[i].pc = "inserted"
    /\ reqs' = [reqs EXCEPT ![i].pc = "serialized",
                            ![i].contents = ToStringPretty(mem, seed)]
    /\ UNCHANGED <<file, mem, proc, seed, cur, diff, hist, nops, result, base, marks>>

\* save: fs::write, then the response of the handler
ReqWrite(i, w) ==
    /\ reqs[i].pc = "serialized"
    /\ file' = FsWrite(file, reqs[i].contents, w)
    /\ reqs' = [reqs EXCEPT ![i].pc = "done",
                            ![i].status = IF w = "written" THEN StatusOK
                                          ELSE StatusInternalServerError]
    /\ UNCHANGED <<mem, proc, seed, cur, diff, hist, nops, result, base, marks>>

\* the user checks out another branch or commit while requests are in flight
CheckoutConc(b, c) ==
    /\ proc = "up"
    /\ <<b, c>> # <<cur.branch, cur.commit>>
    /\ cur' = [cur EXCEPT !.branch = b, !.commit = c]
    /\ diff' = DiffAt(c)
    /\ UNCHANGED <<file, mem, proc, seed, hist, nops, reqs, result, base, marks>>

NextConc ==
    \/ \E i \in 1..MaxReqs, f \in Files, gitok \in BOOLEAN : ReqInsert(i, f, gitok)
    \/ \E i \in 1..MaxReqs : ReqSerialize(i)
    \/ \E i \in 1..MaxReqs, w \in WriteOutcomes : ReqWrite(i, w)
    \/ \E b \in Branches, c \in Commits : CheckoutConc(b, c)

SpecConc == InitConc /\ [][NextConc]_vars

ReqKey(i) == <<reqs[i].r, reqs[i].b, reqs[i].c, reqs[i].f>>

Succeeded(i) == reqs[i].pc = "done" /\ reqs[i].status = StatusOK

\* C2: after two concurrently handled mark-viewed requests for different
\* files have both returned success, both files are viewed in memory and
\* both are in the persisted state file.
NoLostUpdate ==
    \A i, j \in 1..MaxReqs :
        (i # j /\ Succeeded(i) /\ Succeeded(j) /\ reqs[i].f # reqs[j].f) =>
            /\ Viewed(mem, ReqKey(i)) /\ Viewed(mem, ReqKey(j))
            /\ LET sm == StateManagerNew(file, TRUE)
               IN sm.ok /\ Viewed(sm.repos, ReqKey(i)) /\ Viewed(sm.repos, ReqKey(j))

----------------------------------------------------------------------------
(* get_diff_files called on the diffs of a bounded family *)

PathNames == <<"a.txt", "b.txt", "c.txt", "d.txt">>
PathAt(i) == PathNames[i]

SeqsFromTo(S, lo, hi) == UNION {[1..n -> S] : n \in lo..hi}

\* the lines of a delta: none, or a hunk header and up to MaxLines lines
HunkLines ==
    {<<>>} \cup {<<HunkHeaderLine>> \o body :
                   body \in SeqsFromTo({GoodLine(o) : o \in ContentOrigins}, 1, MaxLines)}

ByteLines ==
    {<<HunkHeaderLine>> \o body :
        body \in SeqsFromTo({GoodLine(o) : o \in ContentOrigins}
                              \cup {BadLine(o) : o \in ContentOrigins}, 1, MaxLines)}

OneAdded == <<HunkHeaderLine, GoodLine("+")>>

\* a content line whose text is "@@"
AtLine(o) == [origin |-> o, content |-> <<"@", "@", LF>>]

\* the last line of a file that does not end in a newline, and the marker
\* line libgit2 prints after it
NoNewlineLine(o) == [origin |-> o, content |-> <<"x">>]
EofnlOrigin(o) == CASE o = "+" -> "<" [] o = "-" -> ">" [] OTHER -> "="
EofnlLine(o) == [origin |-> EofnlOrigin(o), content |-> <<LF, "\\", LF>>]

RECURSIVE Concat(_)
Concat(ss) == IF ss = <<>> THEN <<>> ELSE Head(ss) \o Concat(Tail(ss))

MarkerItems ==
    {<<GoodLine(o)>> : o \in ContentOrigins}
        \cup {<<AtLine(o)>> : o \in ContentOrigins}
        \cup {<<NoNewlineLine(o), EofnlLine(o)>> : o \in ContentOrigins}

MarkerLines ==
    {<<HunkHeaderLine>> \o Concat(items) : items \in SeqsFromTo(MarkerItems, 1, MaxLines)}

\* the path of a delta side: its own path, none, or not UTF-8
PathChoices == {"own", NoPath, NonUtf8Path}
PathChoice(ch, i) == IF ch = "own" THEN PathAt(i) ELSE ch

\* a diff given the lines of its deltas
LineDiff(ls) == [i \in DOMAIN ls |-> Delta(PathAt(i), PathAt(i), "Modified", ls[i])]

\* a diff given the new and old paths of its deltas
PathDiff(nps, ops) ==
    [i \in DOMAIN nps |->
        Delta(PathChoice(nps[i], i), PathChoice(ops[i], i), "Modified", OneAdded)]

\* a diff given the kinds of its deltas
KindDiff(ks) == [i \in DOMAIN ks |-> Delta(PathAt(i), PathAt(i), ks[i], OneAdded)]

\* a diff of one delta given its lines
ByteDiff(ls) == <<Delta("a.txt", "a.txt", "Modified", ls)>>

\* the diffs get_diff_files is called on: up to MaxDeltas deltas that differ
\* in their lines, in their paths or in their kinds, and one delta whose
\* lines differ in their bytes or in their markers
DiffInput(d) ==
    \/ \E n \in 0..MaxDeltas : \E ls \in [1..n -> HunkLines] : d = LineDiff(ls)
    \/ \E n \in 1..MaxDeltas : \E nps \in [1..n -> PathChoices], ops \in [1..n -> PathChoices] :
          d = PathDiff(nps, ops)
    \/ \E n \in 1..MaxDeltas : \E ks \in [1..n -> DeltaKinds] : d = KindDiff(ks)
    \/ \E ls \in ByteLines : d = ByteDiff(ls)
    \/ \E ls \in MarkerLines : d = ByteDiff(ls)

BaseInputs == {"main", "gone"}

InitDiff ==
    /\ DiffInput(diff)
    /\ file = NoFile
    /\ seed = "fwd"
    /\ cur = [repo_path |-> "/r1", branch |-> "feature", commit |-> "c1"]
    /\ proc = "up"
    /\ mem = EmptyMap
    /\ hist = <<>>
    /\ nops = 0
    /\ reqs = [i \in 1..MaxReqs |-> IdleReq]
    /\ result = NoResult
    /\ base = "main"
    /\ marks = NoMarks

GetDiffFilesCall(base_branch, gitok) ==
    /\ LET got == GetDiffFiles(diff, LocalBranches, base_branch, gitok)
       IN result' = [ok |-> got.ok, panic |-> got.panic, files |-> got.files,
                     called |-> TRUE, base |-> base_branch]
    /\ UNCHANGED <<file, mem, proc, seed, cur, diff, hist, nops, reqs, base, marks>>

NextDiff == \E base_branch \in BaseInputs, gitok \in BOOLEAN : GetDiffFilesCall(base_branch, gitok)

SpecDiff == InitDiff /\ [][NextDiff]_vars

RECURSIVE SumAdditions(_)
SumAdditions(files) ==
    IF files = <<>> THEN 0 ELSE Head(files).additions + SumAdditions(Tail(files))

RECURSIVE SumDeletions(_)
SumDeletions(files) ==
    IF files = <<>> THEN 0 ELSE Head(files).deletions + SumDeletions(Tail(files))

Returned == result.called /\ result.ok

\* C8: the additions of the returned entries sum to the insertions of the
\* diff, and their deletions to its deletions.
SumEqualsAggregate ==
    Returned =>
        /\ SumAdditions(result.files) = StatsInsertions(diff)
        /\ SumDeletions(result.files) = StatsDeletions(diff)

\* C9: the additions and deletions of each returned entry are the numbers of
\* added and deleted lines of its own delta.
PerFileStats ==
    Returned =>
        \A i \in 1..Len(result.files) :
            /\ result.files[i].additions = CountOrigin(diff[i].lines, "+")
            /\ result.files[i].deletions = CountOrigin(diff[i].lines, "-")

\* C10: the patch of each returned entry is made of the addition, deletion
\* and context lines of its own delta, in order, and of nothing else.
PerFilePatch ==
    Returned =>
        \A i \in 1..Len(result.files) :
            result.files[i].patch = PatchOfLines(diff[i].lines)

\* the positions of patch p at which a line begins
LineStarts(p) == {i \in 1..Len(p) : i = 1 \/ p[i - 1] = LF}

\* C11: in every entry get_diff_files returns, every line of patch begins
\* with '+', '-' or a space; the hunk headers, the file headers and the
\* other marker lines are dropped, so that no line of patch begins with
\* "@@" or with "diff".
PatchLineFilter ==
    Returned =>
        \A k \in DOMAIN result.files :
            LET p == result.files[k].patch
            IN \A i \in LineStarts(p) :
                  /\ p[i] \in ContentOrigins
                  /\ p[i] \notin {Head(HunkHeaderLine.content), Head(FileHeaderLine.content)}

PatchLineFilterWitness ==
    /\ Returned
    /\ \E j \in DOMAIN diff : \E n \in DOMAIN diff[j].lines :
          /\ diff[j].lines[n].origin \notin ContentOrigins \cup {HunkHeaderOrigin}
          /\ \E m \in DOMAIN diff[j].lines : diff[j].lines[m] = AtLine(" ")
    /\ \E k \in DOMAIN result.files :
          /\ Cardinality(LineStarts(result.files[k].patch)) >= 2
          /\ \E i \in LineStarts(result.files[k].patch) :
                i > 1 /\ result.files[k].patch[i] = "+"

\* C12: a diff request calls get_diff_files with the base branch the process
\* was started with (--base, "main" when none was given).
BaseBranchSelection ==
    (Done(1) /\ hist[1].op = "diff") => hist[1].arg = base

\* the last operation was a mark-viewed request whose mark_file_viewed
\* returned Ok
LastMarkOk == LastIsMark /\ hist[1].call = "ok"

\* the viewed facts of a state
Facts(repos) == {k \in AllKeys : Viewed(repos, k)}

\* the viewed facts StateManager::new loads from a state file
FileFacts(f) ==
    LET sm == StateManagerNew(f, TRUE)
    IN IF sm.ok THEN Facts(sm.repos) ELSE {}

\* C13: whenever mark_file_viewed has returned Ok, the state file decodes to
\* exactly the in-memory state of the store that made the call, whatever the
\* file held before and including what earlier calls whose write failed had
\* inserted.
FlushInFull ==
    LastMarkOk =>
        LET sm == StateManagerNew(file, TRUE)
        IN sm.ok /\ sm.repos = mem /\ mem = hist[1].mem1

FlushInFullWitness ==
    /\ Done(2) /\ LastMarkOk
    /\ hist[2].op = "mark" /\ hist[2].call = "err"
    /\ KeyOf(hist[2]) # KeyOf(hist[1])
    /\ MissingOrCorrupt(hist[1].file0)
    /\ FileFacts(file) = {KeyOf(hist[1]), KeyOf(hist[2])}

\* C14: no request served by a process makes a viewed file unviewed in its
\* store, and a successful flush leaves in the state file every fact the
\* file held before it, so that over successful marks and restarts the
\* facts of the file only grow.
MonotonicGrowth ==
    /\ (Done(1) /\ hist[1].op \in {"mark", "diff"}) =>
           Facts(hist[1].mem0) \subseteq Facts(hist[1].mem1)
    /\ LastMarkOk =>
           /\ FileFacts(hist[1].file0) \subseteq FileFacts(hist[1].file1)
           /\ KeyOf(hist[1]) \in FileFacts(hist[1].file1)

MonotonicGrowthWitness ==
    /\ Done(2) /\ LastMarkOk
    /\ hist[2].op = "restart" /\ hist[2].call = "ok"
    /\ FileFacts(hist[1].file0) # {}
    /\ FileFacts(hist[1].file0) # FileFacts(hist[1].file1)
    /\ Facts(hist[1].mem0) = FileFacts(hist[1].file0)

\* no file path occurs twice in a collection of the state
NoDuplicates(repos) ==
    \A r \in DOMAIN repos : \A b \in DOMAIN repos[r] : \A c \in DOMAIN repos[r][b] :
        \A i, j \in DOMAIN repos[r][b][c] :
            repos[r][b][c][i] = repos[r][b][c][j] => i = j

\* C15: no file path occurs more than once in the collection of a
\* (repo, branch, commit) key, in memory or in the state file.
NoDuplicateFacts ==
    /\ NoDuplicates(mem)
    /\ LET sm == StateManagerNew(file, TRUE)
       IN sm.ok => NoDuplicates(sm.repos)

NoDuplicateFactsWitness ==
    /\ LastMarkOk
    /\ Viewed(hist[1].mem0, KeyOf(hist[1]))
    /\ hist[1].file0 = hist[1].file1
    /\ Len(mem[hist[1].r][hist[1].b][hist[1].c]) = 2

\* the body diff_handler answers a diff request with in the current state
DiffAnswer ==
    LET got == GetDiffFiles(diff, LocalBranches, DiffBaseArg, TRUE)
    IN ViewedLoop(mem, cur.repo_path, cur.branch, cur.commit, got.files).body

\* C16: once a mark-viewed request for f has been answered with success
\* under (root, branch, commit), every diff request answered under that key,
\* by the same process or after a restart, reports f viewed; and a file is
\* reported viewed only if it was marked under the key of the request.
ViewedEndToEnd ==
    proc = "up" =>
        \A i \in DOMAIN DiffAnswer :
            /\ CurKey(DiffAnswer[i].path) \in marks.acked => DiffAnswer[i].viewed
            /\ DiffAnswer[i].viewed => CurKey(DiffAnswer[i].path) \in marks.called

\* a path as text: nothing when there is no path or it is not UTF-8
PathText(p) == IF p \in {NoPath, NonUtf8Path} THEN "" ELSE p

\* the new path of a delta when it has one, else its old path, else nothing
FallbackPath(delta) ==
    IF delta.new_path # NoPath THEN PathText(delta.new_path) ELSE PathText(delta.old_path)

LikeNamed ==
    [Added |-> "added", Deleted |-> "deleted", Modified |-> "modified",
     Renamed |-> "renamed", Copied |-> "copied"]

\* C18: a successful get_diff_files returns one entry per delta, in the
\* order of the deltas; the i-th entry carries the path of the i-th delta
\* and its status: the like-named one for added, deleted, modified, renamed
\* and copied, "unknown" for every other kind.
OneEntryPerDelta ==
    Returned =>
        /\ Len(result.files) = Len(diff)
        /\ \A i \in DOMAIN diff :
              /\ result.files[i].path = FallbackPath(diff[i])
              /\ result.files[i].status =
                    IF diff[i].status \in DOMAIN LikeNamed
                    THEN LikeNamed[diff[i].status] ELSE "unknown"

OneEntryPerDeltaWitness ==
    /\ Returned
    /\ Len(diff) = 2 /\ Len(result.files) = 2
    /\ diff[1].status = "Typechange" /\ diff[2].status = "Renamed"
    /\ result.files[1].path # result.files[2].path
    /\ result.files[1].status # result.files[2].status

\* the substitute of a byte sequence that is not valid UTF-8
Replacement == "U+FFFD"

\* String::from_utf8_lossy: the valid content kept, the invalid bytes replaced
FromUtf8Lossy(content) ==
    [i \in DOMAIN content |-> IF content[i] = BadByte THEN Replacement ELSE content[i]]

RECURSIVE LossyPatchOfLines(_)
LossyPatchOfLines(lines) ==
    IF lines = <<>> THEN <<>>
    ELSE (IF Head(lines).origin \in ContentOrigins
          THEN <<Head(lines).origin>> \o FromUtf8Lossy(Head(lines).content)
          ELSE <<>>) \o LossyPatchOfLines(Tail(lines))

\* C19: get_diff_files does not fail on content that is not valid UTF-8,
\* and every '+', '-' and context line is in patch as its origin marker
\* followed by its content decoded lossily, also when its bytes are not
\* valid UTF-8.
NonUtf8ContentKept ==
    Returned =>
        \A k \in DOMAIN result.files :
            result.files[k].patch = LossyPatchOfLines(PrintLines(diff))

====
